---- MODULE Spec2Model ----
(***************************************************************************)
(* A model of the hex patch engine of DemodAPK (src/demodapk/hex.py):      *)
(* patch_codes and the helpers it calls.  Directives are character         *)
(* sequences, parsed the way the Python code parses them; the buffer is a  *)
(* sequence of byte values; offsets are 0-based as in the source, so the   *)
(* byte at offset o is data[o + 1].                                        *)
(***************************************************************************)
EXTENDS Integers, Sequences, FiniteSets, TLC

\* ------------------------------------------------------------------ bounds
\* longest generated file content
MaxLen == 3
\* most directives in one batch
MaxCodes == 2
\* most tokens of a pattern, and most bytes of a slice, given to the matcher
MaxTokens == 2
\* most patches in the patch_list of patcher.py
MaxPatches == 2
\* most elements in a manifest and most entries in the metadata list
MaxElems == 2
MaxNames == 2
\* saturation of the per-directive occurrence counter: a scan that ends
\* patches at most len(data) occurrences, and no scan of the documented
\* scenarios more than two, so only a scan that never ends is cut short
PatchCap == MaxLen + 1

\* ------------------------------------------------------- characters, bytes
HexChars == {"0","1","2","3","4","5","6","7","8","9",
             "A","B","C","D","E","F","a","b","c","d","e","f"}

\* value of one hexadecimal digit
HexVal(c) ==
  CASE c = "0" -> 0  [] c = "1" -> 1  [] c = "2" -> 2  [] c = "3" -> 3
    [] c = "4" -> 4  [] c = "5" -> 5  [] c = "6" -> 6  [] c = "7" -> 7
    [] c = "8" -> 8  [] c = "9" -> 9
    [] c \in {"A","a"} -> 10 [] c \in {"B","b"} -> 11
    [] c \in {"C","c"} -> 12 [] c \in {"D","d"} -> 13
    [] c \in {"E","e"} -> 14 [] c \in {"F","f"} -> 15

\* what \s matches among the characters used here
IsSpace(c) == c \in {" ", "\t", "\n"}

\* re.sub(r"\s+", "", s)
RemoveWhitespace(s) == SelectSeq(s, LAMBDA c : ~IsSpace(c))

RECURSIVE LStrip(_)
LStrip(s) == IF s # <<>> /\ IsSpace(Head(s)) THEN LStrip(Tail(s)) ELSE s

RECURSIVE RStrip(_)
RStrip(s) ==
  IF s # <<>> /\ IsSpace(s[Len(s)]) THEN RStrip(SubSeq(s, 1, Len(s) - 1)) ELSE s

\* str.strip
Strip(s) == RStrip(LStrip(s))

\* code.split("|"): the parts between the separators, always at least one
RECURSIVE SplitBar(_, _)
SplitBar(s, cur) ==
  IF s = <<>> THEN <<cur>>
  ELSE IF Head(s) = "|" THEN <<cur>> \o SplitBar(Tail(s), <<>>)
  ELSE SplitBar(Tail(s), Append(cur, Head(s)))

\* hex_search_or_offset.lower().startswith("0x")
StartsWith0x(s) == Len(s) >= 2 /\ s[1] = "0" /\ s[2] \in {"x", "X"}

\* the digits of int(.., 16) after sign and prefix: hexadecimal digits,
\* single underscores allowed between two digits only
RECURSIVE DigitsOK(_, _)
DigitsOK(s, prevDigit) ==
  IF s = <<>> THEN prevDigit
  ELSE IF Head(s) \in HexChars THEN DigitsOK(Tail(s), TRUE)
  ELSE IF Head(s) = "_" THEN prevDigit /\ Tail(s) # <<>> /\ Tail(s)[1] \in HexChars
                             /\ DigitsOK(Tail(s), FALSE)
  ELSE FALSE

RECURSIVE DigitsVal(_, _)
DigitsVal(s, acc) ==
  IF s = <<>> THEN acc
  ELSE IF Head(s) = "_" THEN DigitsVal(Tail(s), acc)
  ELSE DigitsVal(Tail(s), 16 * acc + HexVal(Head(s)))

\* int(s, 16), ok = FALSE standing for ValueError: surrounding whitespace,
\* an optional sign, an optional 0x/0X prefix (one underscore may follow
\* it), then the digits
IntDigits(s, neg) ==
  IF s # <<>> /\ Head(s) \in HexChars /\ DigitsOK(s, FALSE)
  THEN [ok |-> TRUE, val |-> IF neg THEN 0 - DigitsVal(s, 0) ELSE DigitsVal(s, 0)]
  ELSE [ok |-> FALSE, val |-> 0]

IntAfterPrefix(s, neg) ==
  IntDigits(IF s # <<>> /\ Head(s) = "_" THEN Tail(s) ELSE s, neg)

IntUnsigned(s, neg) ==
  IF StartsWith0x(s) THEN IntAfterPrefix(SubSeq(s, 3, Len(s)), neg)
  ELSE IntDigits(s, neg)

IntSigned(s) ==
  IF s # <<>> /\ Head(s) \in {"+", "-"} THEN IntUnsigned(Tail(s), Head(s) = "-")
  ELSE IntUnsigned(s, FALSE)

IntBase16(str) == IntSigned(Strip(str))

\* bytes.fromhex(s) of a string without whitespace: ValueError (ok = FALSE)
\* unless it is an even number of hexadecimal digits
RECURSIVE HexPairs(_)
HexPairs(s) ==
  IF Len(s) < 2 THEN <<>>
  ELSE <<16 * HexVal(s[1]) + HexVal(s[2])>> \o HexPairs(SubSeq(s, 3, Len(s)))

BytesFromHex(s) ==
  IF Len(s) % 2 = 0 /\ \A i \in 1..Len(s) : s[i] \in HexChars
  THEN [ok |-> TRUE, val |-> HexPairs(s)]
  ELSE [ok |-> FALSE, val |-> <<>>]

\* ------------------------------------------------------------ the matcher
\* a wildcard position of a compiled pattern (b"." under re.DOTALL)
Wild == 256

\* the pairs of a cleaned pattern string: "??" is a wildcard, anything else
\* goes through bytes.fromhex; ok = FALSE is its ValueError
RECURSIVE PatternTokens(_)
PatternTokens(s) ==
  IF Len(s) < 2 THEN [ok |-> TRUE, val |-> <<>>]
  ELSE LET two  == SubSeq(s, 1, 2)
           rest == PatternTokens(SubSeq(s, 3, Len(s)))
       IN  IF two = <<"?", "?">>
           THEN [ok |-> rest.ok, val |-> <<Wild>> \o rest.val]
           ELSE IF BytesFromHex(two).ok
                THEN [ok |-> rest.ok, val |-> BytesFromHex(two).val \o rest.val]
                ELSE [ok |-> FALSE, val |-> <<>>]

\* a compilation without the test of the length
HexToRegexAnyLength(hex_string) ==
  [ok  |-> PatternTokens(RemoveWhitespace(hex_string)).ok,
   pat |-> PatternTokens(RemoveWhitespace(hex_string)).val,
   msg |-> IF PatternTokens(RemoveWhitespace(hex_string)).ok THEN "none"
           ELSE "InvalidHex"]

\* _hex_to_regex: the compiled pattern as its sequence of positions, or
\* ok = FALSE (None) with the error it logs
HexToRegex(hex_string) ==
  LET clean == RemoveWhitespace(hex_string)
      toks  == PatternTokens(clean)
  IN  IF Len(clean) % 2 # 0 THEN [ok |-> FALSE, pat |-> <<>>, msg |-> "OddLength"]
      ELSE IF ~toks.ok THEN [ok |-> FALSE, pat |-> <<>>, msg |-> "InvalidHex"]
      ELSE [ok |-> TRUE, pat |-> toks.val, msg |-> "none"]

\* the compiled pattern matches data at offset i
MatchesAt(pat, data, i) ==
  /\ i + Len(pat) <= Len(data)
  /\ \A j \in 1..Len(pat) : pat[j] = Wild \/ pat[j] = data[i + j]

\* a search that returns the rightmost match at or after pos
RegexSearchLast(pat, data, pos) ==
  LET hits == {i \in pos..Len(data) : MatchesAt(pat, data, i)}
  IN  IF hits = {} THEN -1
      ELSE CHOOSE i \in hits : \A k \in hits : i >= k

\* regex.search(data, pos): the start of the leftmost match at or after
\* pos, -1 for None
RegexSearch(pat, data, pos) ==
  LET hits == {i \in pos..Len(data) : MatchesAt(pat, data, i)}
  IN  IF hits = {} THEN -1
      ELSE CHOOSE i \in hits : \A k \in hits : i <= k

\* the bytes re.escape puts a backslash before
ReSpecialBytes ==
  {40, 41, 91, 93, 123, 125, 63, 42, 43, 45, 124, 94, 36, 92, 46, 38, 126, 35,
   32, 9, 10, 13, 11, 12}

\* the bytes that, unescaped, are operators of the regex syntax
ReMetaBytes == {40, 41, 91, 123, 63, 42, 43, 124, 94, 36, 92, 46}

\* an escape that leaves every byte as it is
ReEscapeNone(b) == <<b>>

\* re.escape of one byte
ReEscape(b) == IF b \in ReSpecialBytes THEN <<92, b>> ELSE <<b>>

\* the bytes of `pattern` that _hex_to_regex builds from the tokens: "."
\* for a wildcard, the escaped byte for a literal
RECURSIVE RegexSource(_)
RegexSource(toks) ==
  IF toks = <<>> THEN <<>>
  ELSE (IF Head(toks) = Wild THEN <<46>> ELSE ReEscape(Head(toks)))
         \o RegexSource(Tail(toks))

\* the re.DOTALL flag given to re.compile
DotAll == TRUE

\* the regex compiled from the bytes src matches data from offset i on.
\* src is read as a sequence of one-byte atoms: a backslash and the byte
\* after it (not a letter or digit) is that byte, "." is any byte (any but
\* 0x0A without DOTALL), any other byte that is no operator is itself;
\* an unescaped operator has no meaning here and matches nothing
RECURSIVE ReMatchFrom(_, _, _)
ReMatchFrom(src, data, i) ==
  IF src = <<>> THEN TRUE
  ELSE IF src[1] = 92
       THEN /\ Len(src) >= 2
            /\ src[2] \in ReSpecialBytes
            /\ i < Len(data)
            /\ data[i + 1] = src[2]
            /\ ReMatchFrom(SubSeq(src, 3, Len(src)), data, i + 1)
  ELSE IF src[1] = 46
       THEN /\ i < Len(data)
            /\ (DotAll \/ data[i + 1] # 10)
            /\ ReMatchFrom(Tail(src), data, i + 1)
  ELSE /\ src[1] \notin ReMetaBytes
       /\ i < Len(data)
       /\ data[i + 1] = src[1]
       /\ ReMatchFrom(Tail(src), data, i + 1)

\* regex.search(data, pos) on the compiled bytes: the start of the
\* leftmost match at or after pos, -1 for None
ReSearch(src, data, pos) ==
  LET hits == {i \in pos..Len(data) : ReMatchFrom(src, data, i)}
  IN  IF hits = {} THEN -1
      ELSE CHOOSE i \in hits : \A k \in hits : i <= k

\* ------------------------------------------------------- buffer operations
Min(a, b) == IF a < b THEN a ELSE b

\* an assignment that inserts repl at start and removes nothing
SliceAssignInsert(data, start, stop, repl) ==
  SubSeq(data, 1, Min(start, Len(data))) \o repl
    \o SubSeq(data, Min(start, Len(data)) + 1, Len(data))

\* data[start:stop] = repl on a bytearray: the bounds are clamped to the
\* length, and everything between them is replaced by repl
SliceAssign(data, start, stop, repl) ==
  LET lo == Min(start, Len(data))
      hi == IF Min(stop, Len(data)) < lo THEN lo ELSE Min(stop, Len(data))
  IN  SubSeq(data, 1, lo) \o repl \o SubSeq(data, hi + 1, Len(data))

\* the loop of _parse_replace_pattern over the pairs of clean_hex;
\* result_bytes is what has been appended so far
RECURSIVE ResolvePairs(_, _, _, _)
RECURSIVE AppendLiteral(_, _, _, _, _)

\* result_bytes.append(int(two_chars, 16)), n being the value of int(..):
\* ValueError when it is no number or no byte value
AppendLiteral(n, clean_hex, original_bytes, offset, result_bytes) ==
  IF ~n.ok \/ n.val < 0 \/ n.val > 255
  THEN [ok |-> FALSE, val |-> <<>>, msg |-> "InvalidHex"]
  ELSE ResolvePairs(SubSeq(clean_hex, 3, Len(clean_hex)), original_bytes, offset,
                    Append(result_bytes, n.val))

ResolvePairs(clean_hex, original_bytes, offset, result_bytes) ==
  IF Len(clean_hex) < 2 THEN [ok |-> TRUE, val |-> result_bytes, msg |-> "none"]
  ELSE IF SubSeq(clean_hex, 1, 2) = <<"?", "?">>
       THEN IF offset + Len(result_bytes) >= Len(original_bytes)
            THEN [ok |-> FALSE, val |-> <<>>, msg |-> "OutOfBounds"]
            ELSE ResolvePairs(SubSeq(clean_hex, 3, Len(clean_hex)), original_bytes,
                   offset,
                   Append(result_bytes,
                          original_bytes[offset + Len(result_bytes) + 1]))
       ELSE AppendLiteral(IntBase16(SubSeq(clean_hex, 1, 2)), clean_hex,
                          original_bytes, offset, result_bytes)

\* a resolver that reads the kept bytes from the start of the buffer
\* instead of from the offset of the write
ParseReplacePatternFromStart(hex_replace_str, original_bytes, offset) ==
  IF Len(RemoveWhitespace(hex_replace_str)) % 2 # 0
  THEN [ok |-> FALSE, val |-> <<>>, msg |-> "OddLength"]
  ELSE ResolvePairs(RemoveWhitespace(hex_replace_str), original_bytes, 0, <<>>)

\* _parse_replace_pattern: the bytes to write, or ok = FALSE (None)
ParseReplacePattern(hex_replace_str, original_bytes, offset) ==
  LET clean_hex == RemoveWhitespace(hex_replace_str)
  IN  IF Len(clean_hex) % 2 # 0
      THEN [ok |-> FALSE, val |-> <<>>, msg |-> "OddLength"]
      ELSE ResolvePairs(clean_hex, original_bytes, offset, <<>>)

\* ----------------------------------------------------------------- logging
\* the methods class MessagePrinter defines; calling any other name on msg
\* raises AttributeError
MessagePrinterMethods ==
  {"print", "success", "warning", "error", "info", "progress"}

MsgRaises(method) == method \notin MessagePrinterMethods

\* -------------------------------------------------------- offset directives
\* a bounds test that lets a write end one byte past the buffer
OffsetOutOfBoundsLate(target_offset, replace_bytes, patched_data) ==
  target_offset + Len(replace_bytes) > Len(patched_data) + 1

\* the bounds test of _apply_offset_patch
OffsetOutOfBounds(target_offset, replace_bytes, patched_data) ==
  target_offset + Len(replace_bytes) > Len(patched_data)

\* an error that is not caught and leaves the batch
OffsetFailUncaught(patched_data, logged) ==
  [applied |-> FALSE, data |-> patched_data, msgs |-> logged,
   exc |-> IF logged = {} THEN "none" ELSE "ValueError"]

\* what _apply_offset_patch returns when it writes nothing
OffsetFail(patched_data, logged) ==
  [applied |-> FALSE, data |-> patched_data, msgs |-> logged, exc |-> "none"]

\* _apply_offset_patch from the emptiness test of replace_bytes on: the
\* bounds test, the write and the messages
OffsetWrite(target_offset, repl, patched_data, verb) ==
  IF repl = <<>> THEN OffsetFail(patched_data, {})
  ELSE IF OffsetOutOfBounds(target_offset, repl, patched_data)
       THEN OffsetFail(patched_data, {"OutOfBounds"})
  ELSE [applied |-> ~(verb /\ MsgRaises("done")),
        data |-> SliceAssign(patched_data, target_offset,
                             target_offset + Len(repl), repl),
        msgs |-> {},
        exc |-> IF verb /\ MsgRaises("done") THEN "AttributeError" ELSE "none"]

\* _apply_offset_patch once the replacement has been parsed
OffsetResolved(target_offset, parsed, patched_data, verb) ==
  IF ~parsed.ok THEN OffsetFail(patched_data, {parsed.msg})
  ELSE OffsetWrite(target_offset, parsed.val, patched_data, verb)

\* _apply_offset_patch once the offset has been converted
OffsetAt(target, hex_replace_str, patched_data, verb) ==
  IF ~target.ok THEN OffsetFail(patched_data, {"InvalidOffset"})
  ELSE OffsetResolved(target.val,
         ParseReplacePattern(hex_replace_str, patched_data, target.val),
         patched_data, verb)

\* _apply_offset_patch: applied, the buffer afterwards, what was logged and
\* whether an exception escaped (the bytearray is mutated in place, so the
\* caller's buffer is changed even then)
ApplyOffsetPatch(hex_search_or_offset, hex_replace_str, patched_data, verb) ==
  OffsetAt(IntBase16(hex_search_or_offset), hex_replace_str, patched_data, verb)

\* -------------------------------------------------------- search directives
\* a replacement parser that lets "??" pairs through
SearchReplaceBytesLoose(hex_replace_str) ==
  [ok  |-> HexToRegex(hex_replace_str).ok,
   val |-> HexToRegex(hex_replace_str).pat]

\* the replacement of a search directive: bytes.fromhex of the cleaned
\* string, literal pairs only ("??" is a ValueError here)
SearchReplaceBytes(hex_replace_str) ==
  BytesFromHex(RemoveWhitespace(hex_replace_str))

\* end_of_replace of a match found at found_offset
EndOfReplace(found_offset, repl) == found_offset + Len(repl)

\* a bounds test of the scan that lets a write end one byte past the buffer
SearchOutOfBoundsLate(end_of_replace, data) == end_of_replace > Len(data) + 1

\* the bounds test of the scan loop
SearchOutOfBounds(end_of_replace, data) == end_of_replace > Len(data)

\* a scan that resumes one byte after the match it patched
NextOffsetByOne(found_offset, end_of_replace, pat) == found_offset + 1

\* where the scan resumes after a match has been patched
NextOffset(found_offset, end_of_replace, pat) == end_of_replace

\* a scan that forgets to count what it patched
CountUpForgotten(n) == n

\* patches_in_this_code += 1 (saturating at PatchCap)
CountUp(n) == IF n < PatchCap THEN n + 1 ELSE n

\* ------------------------------------------------------------- patch_codes
\* an existence test that lets a missing file through
FileMissingNever(file_exists) == FALSE

\* the existence test that ends patch_codes before the read
FileMissing(file_exists) == ~file_exists

\* code.split("|") mapped through str.strip; unpacking into two names
\* needs exactly two parts
SplitCode(c) ==
  LET parts == SplitBar(c, <<>>)
  IN  IF Len(parts) = 2
      THEN [ok |-> TRUE, left |-> Strip(parts[1]), right |-> Strip(parts[2])]
      ELSE [ok |-> FALSE, left |-> <<>>, right |-> <<>>]

\* a loop that hands every directive the content that was read
BufferForDirectiveLoaded(loaded, current) == loaded

\* the buffer a directive is applied to: the argument patched_data of the
\* two calls in the loop, which is the buffer as the directives before it
\* left it, not the content that was read
BufferForDirective(loaded, current) == current

\* a mode test that knows the prefix in lower case only
IsOffsetModeLowerCase(hex_search_or_offset) ==
  /\ Len(hex_search_or_offset) >= 2
  /\ hex_search_or_offset[1] = "0"
  /\ hex_search_or_offset[2] = "x"

\* the mode test of patch_codes
IsOffsetMode(hex_search_or_offset) == StartsWith0x(hex_search_or_offset)

\* a commit test that also writes when nothing was patched
ShouldWriteAlways(total) == total >= 0

\* the commit test of patch_codes
ShouldWrite(total) == total > 0

\* a write that loses the last byte
WrittenContentShort(data) == SubSeq(data, 1, Len(data) - 1)

\* what f.write stores in the file
WrittenContent(data) == data

\* -------------------------------------------------------------- the inputs
\* byte values of the generated file contents
GenBytes == {170, 187}

RECURSIVE SeqsUpTo(_, _)
SeqsUpTo(S, n) ==
  IF n = 0 THEN {<<>>}
  ELSE LET shorter == SeqsUpTo(S, n - 1)
       IN  shorter \cup {Append(q, x) : q \in {r \in shorter : Len(r) = n - 1}, x \in S}

\* the three buffers of the documented scenarios
bufDEAD == <<222, 173, 190, 239, 0, 17, 34>>
bufAABB == <<170, 187, 204, 221, 170, 187, 204, 221>>
buf1122 == <<17, 34, 51>>

ExampleBuffers == {bufDEAD, bufAABB, buf1122}

Buffers == SeqsUpTo(GenBytes, MaxLen) \cup ExampleBuffers

Sp == <<" ">>
Bar == <<" ", "|", " ">>
tAA == <<"A", "A">>
tBB == <<"B", "B">>
t00 == <<"0", "0">>
tFF == <<"F", "F">>
tDD == <<"D", "D">>
tWW == <<"?", "?">>

\* the directives of the documented scenarios, and the fourth of them
\* with its replacement spelled out literally
codeOffsetFF == <<"0", "x", "0", "2">> \o Bar \o tFF \o Sp \o tFF
codeOffsetPastEnd == <<"0", "x", "0", "6">> \o Bar \o t00 \o Sp \o t00
codeSearchKeep ==
  tAA \o Sp \o tBB \o Sp \o tWW \o Sp \o tDD \o Bar
      \o t00 \o Sp \o tWW \o Sp \o t00 \o Sp \o t00
codeSearchLiteral ==
  tAA \o Sp \o tBB \o Sp \o tWW \o Sp \o tDD \o Bar
      \o t00 \o Sp \o tBB \o Sp \o t00 \o Sp \o t00
codeSearchAbsent == tFF \o Sp \o tFF \o Bar \o t00 \o Sp \o t00

ExampleCodes ==
  {codeOffsetFF, codeOffsetPastEnd, codeSearchKeep, codeSearchLiteral,
   codeSearchAbsent}

\* directives that do not split into two parts
MalformedCodes == { tAA, tAA \o Bar \o t00 \o Bar \o t00 }

tZZ == <<"Z", "Z">>
at0 == <<"0", "x", "0">>
at1 == <<"0", "x", "1">>
at2 == <<"0", "x", "2">>

\* offset directives: literal, wildcard-keeping, reaching past the end,
\* with an invalid offset, an odd, an invalid, a signed and an empty
\* replacement, with the prefix in upper case and with a space inside the
\* offset
OffsetCodes ==
  { at0 \o Bar \o t00,
    <<"0", "X", "0">> \o Bar \o t00,
    <<"0", "x", " ", "0">> \o Bar \o t00,
    at0 \o Bar \o <<"+", "A">>,
    at1 \o Bar \o t00 \o Sp \o tWW,
    at2 \o Bar \o tWW \o Sp \o t00,
    at0 \o Bar \o tWW,
    <<"0", "x">> \o Bar \o t00,
    at0 \o Bar \o <<"0">>,
    at0 \o Bar \o tZZ,
    at0 \o Bar }

\* search directives: replacement as long as, longer than and shorter than
\* the pattern, an empty replacement, an empty pattern, a wildcard in the
\* replacement, odd or invalid sides, and a pattern for a byte that only
\* an earlier directive can have written, an empty pattern with a
\* replacement of two bytes, and spaces inside the tokens
SearchCodes ==
  { tAA \o Bar \o t00,
    Bar \o t00 \o Sp \o t00,
    <<"A", " ", "A">> \o Bar \o <<"0", " ", "0">>,
    t00 \o Bar \o tBB,
    <<"?", "A">> \o Bar \o t00,
    tAA \o Bar \o t00 \o Sp \o t00,
    tWW \o Sp \o tWW \o Bar \o t00,
    tBB \o tBB \o Bar \o t00 \o t00,
    tAA \o Bar,
    Bar \o t00,
    tAA \o Bar \o tWW,
    <<"A">> \o Bar \o t00,
    tZZ \o Bar \o t00,
    tAA \o Bar \o <<"0">> }

GenCodes == OffsetCodes \cup SearchCodes \cup MalformedCodes

Codes == GenCodes \cup ExampleCodes

\* the batches drawn for a file: the documented scenarios run their own
\* directives (and the malformed ones), every other file the generated ones
CodesFor(content) ==
  IF content \in ExampleBuffers THEN ExampleCodes \cup MalformedCodes
  ELSE GenCodes

\* the tokens of the pattern specs given to the matcher on its own: the
\* wildcard, bytes that are regex operators (2E, 2A, 5C), the line feed
\* and a letter
MatcherTokens ==
  { tWW, <<"2", "E">>, <<"2", "A">>, <<"5", "C">>, <<"0", "A">>, <<"4", "1">> }

\* the specs of up to n tokens, a space after each token
RECURSIVE HexSpecs(_)
HexSpecs(n) ==
  IF n = 0 THEN {<<>>}
  ELSE LET shorter == HexSpecs(n - 1)
       IN  shorter \cup
           {t \o Sp \o q : t \in MatcherTokens,
                           q \in {r \in shorter :
                                    Len(RemoveWhitespace(r)) = 2 * (n - 1)}}

\* valid specs, one of odd length and one with an invalid pair
MatcherSpecs == HexSpecs(MaxTokens) \cup {<<"2">>, tZZ}

\* the byte values of the slices: line feed, ".", "*", backslash, "A"
MatcherBytes == {10, 46, 42, 92, 65}

MatcherSlices == SeqsUpTo(MatcherBytes, MaxTokens)

\* ---------------------------------------------------------------- the state
VARIABLES
  exists,                 \* the target file exists
  disk,                   \* its content
  verbose,                \* the verbose argument of the batch
  pc,                     \* where patch_codes is
  exc,                    \* the exception that left patch_codes, if any
  binary_data,            \* what was read from the file
  patched_data,           \* the buffer
  total_patches_applied,
  idx,                    \* directives taken from codes so far
  code,                   \* the directive being (or last) processed
  before,                 \* the buffer when that directive started
  count,                  \* what that directive added to the total
  msgs,                   \* what was logged for it
  regex,                  \* the compiled pattern of a running scan
  replace_bytes,          \* its replacement
  current_offset,         \* its cursor
  patches_in_this_code,
  found,                  \* the offsets it has patched, in order
  writes                  \* times the file was opened for writing

\* the state of patch_code in src/patcher.py
VARIABLES
  input_exists,           \* the input file exists
  input_file,             \* its content
  dump_readable,          \* the dump file exists and can be read
  dump_lines,             \* its lines
  ppc,                    \* where patch_code is
  data,                   \* the bytearray read from the input file
  pidx,                   \* patches taken from patch_list so far
  patch,                  \* the patch being (or last) processed
  offset,                 \* the offset found for it
  data_before,            \* data when that patch started
  plog,                   \* what was printed for it
  output_file,            \* the content of the output file
  output_writes           \* times the output file was opened for writing

\* the state of remove_metadata_from_manifest in src/demodapk/patch.py
VARIABLES
  manifest_isfile,        \* the manifest file exists
  manifest_file,          \* its lines
  config_file,            \* the configured list of metadata names
  metadata_to_remove,     \* the names kept from it
  mpc,                    \* where the function is
  lines,                  \* the lines read
  line_idx,               \* lines of them the loop has seen
  filtered_lines,
  skip,
  manifest_writes         \* times the manifest was opened for writing

hexVars == <<exists, disk, verbose, pc, exc, binary_data, patched_data,
             total_patches_applied, idx, code, before, count, msgs, regex,
             replace_bytes, current_offset, patches_in_this_code, found, writes>>

patcherVars == <<input_exists, input_file, dump_readable, dump_lines, ppc, data,
                 pidx, patch, offset, data_before, plog, output_file,
                 output_writes>>

manifestVars == <<manifest_isfile, manifest_file, config_file,
                  metadata_to_remove, mpc, lines, line_idx, filtered_lines,
                  skip, manifest_writes>>

vars == <<hexVars, patcherVars, manifestVars>>

scanVars == <<regex, replace_bytes, current_offset, patches_in_this_code, found>>

\* offset is None
NoneOffset == -2

\* no patch has been taken from patch_list yet
NoPatch == [keys |-> {}, method_name |-> <<>>, offset |-> <<>>,
            wildcard |-> <<>>, hex_code |-> <<>>]

\* patch_code has not been called
PatcherIdle ==
  /\ input_exists = FALSE
  /\ input_file = <<>>
  /\ dump_readable = FALSE
  /\ dump_lines = <<>>
  /\ ppc = "Idle"
  /\ data = <<>>
  /\ pidx = 0
  /\ patch = NoPatch
  /\ offset = NoneOffset
  /\ data_before = <<>>
  /\ plog = {}
  /\ output_file = <<>>
  /\ output_writes = 0

\* remove_metadata_from_manifest has not been called
ManifestIdle ==
  /\ manifest_isfile = FALSE
  /\ manifest_file = <<>>
  /\ config_file = <<>>
  /\ metadata_to_remove = <<>>
  /\ mpc = "Idle"
  /\ lines = <<>>
  /\ line_idx = 0
  /\ filtered_lines = <<>>
  /\ skip = FALSE
  /\ manifest_writes = 0

\* patch_codes has not been called
HexIdle ==
  /\ exists = FALSE
  /\ disk = <<>>
  /\ verbose = FALSE
  /\ pc = "Idle"
  /\ exc = "none"
  /\ binary_data = <<>>
  /\ patched_data = <<>>
  /\ total_patches_applied = 0
  /\ idx = 0
  /\ code = <<>>
  /\ before = <<>>
  /\ count = 0
  /\ msgs = {}
  /\ regex = <<>>
  /\ replace_bytes = <<>>
  /\ current_offset = 0
  /\ patches_in_this_code = 0
  /\ found = <<>>
  /\ writes = 0

Init ==
  /\ PatcherIdle
  /\ ManifestIdle
  /\ exists \in BOOLEAN
  /\ disk \in (IF exists THEN Buffers ELSE {<<>>})
  /\ verbose \in BOOLEAN
  /\ pc = "Start"
  /\ exc = "none"
  /\ binary_data = <<>>
  /\ patched_data = <<>>
  /\ total_patches_applied = 0
  /\ idx = 0
  /\ code = <<>>
  /\ before = <<>>
  /\ count = 0
  /\ msgs = {}
  /\ regex = <<>>
  /\ replace_bytes = <<>>
  /\ current_offset = 0
  /\ patches_in_this_code = 0
  /\ found = <<>>
  /\ writes = 0

\* patch_codes up to the loop: the existence test and the read
Load ==
  /\ pc = "Start"
  /\ \/ /\ FileMissing(exists)
        /\ pc' = "Aborted"
        /\ msgs' = {"FileNotFound"}
        /\ UNCHANGED <<binary_data, patched_data>>
     \/ /\ ~FileMissing(exists)
        /\ pc' = "Aborted"
        /\ msgs' = {"ReadError"}
        /\ UNCHANGED <<binary_data, patched_data>>
     \/ /\ ~FileMissing(exists)
        /\ pc' = "Loop"
        /\ binary_data' = disk
        /\ patched_data' = disk
        /\ msgs' = {}
  /\ UNCHANGED <<exists, disk, verbose, exc, total_patches_applied, idx, code,
                 before, count, scanVars, writes>>
  /\ UNCHANGED <<patcherVars, manifestVars>>

\* one directive that is not of the form "a | b": logged and skipped
SkipMalformed(c) ==
  /\ pc = "Loop"
  /\ idx < MaxCodes
  /\ ~SplitCode(c).ok
  /\ idx' = idx + 1
  /\ code' = c
  /\ before' = patched_data
  /\ count' = 0
  /\ msgs' = {"InvalidFormat"}
  /\ UNCHANGED <<exists, disk, verbose, pc, exc, binary_data, patched_data,
                 total_patches_applied, scanVars, writes>>
  /\ UNCHANGED <<patcherVars, manifestVars>>

\* the state after _apply_offset_patch has returned r (or raised)
OffsetOutcome(r) ==
  /\ patched_data' = r.data
  /\ msgs' = r.msgs
  /\ exc' = r.exc
  /\ pc' = IF r.exc = "none" THEN "Loop" ELSE "Raised"
  /\ count' = IF r.applied THEN 1 ELSE 0
  /\ total_patches_applied' =
       IF r.applied THEN total_patches_applied + 1 ELSE total_patches_applied

\* one offset directive, from the split to the update of the total
OffsetDirective(c) ==
  /\ pc = "Loop"
  /\ idx < MaxCodes
  /\ SplitCode(c).ok
  /\ IsOffsetMode(SplitCode(c).left)
  /\ OffsetOutcome(ApplyOffsetPatch(SplitCode(c).left, SplitCode(c).right,
                                    BufferForDirective(binary_data, patched_data),
                                    verbose))
  /\ idx' = idx + 1
  /\ code' = c
  /\ before' = BufferForDirective(binary_data, patched_data)
  /\ UNCHANGED <<exists, disk, verbose, binary_data, scanVars, writes>>
  /\ UNCHANGED <<patcherVars, manifestVars>>

\* the state after the pattern (rx) and the replacement (rb) of a search
\* directive have been compiled
SearchStart(rx, rb) ==
  IF ~rx.ok
  THEN /\ msgs' = {rx.msg}
       /\ UNCHANGED <<pc, scanVars>>
  ELSE IF ~rb.ok
  THEN /\ msgs' = {"InvalidHex"}
       /\ UNCHANGED <<pc, scanVars>>
  ELSE /\ msgs' = {}
       /\ pc' = "Scan"
       /\ regex' = rx.pat
       /\ replace_bytes' = rb.val
       /\ current_offset' = 0
       /\ patches_in_this_code' = 0
       /\ found' = <<>>

\* the start of a search directive: the split, the compilation of the
\* pattern and the replacement; a directive that fails here adds 0
SearchDirective(c) ==
  /\ pc = "Loop"
  /\ idx < MaxCodes
  /\ SplitCode(c).ok
  /\ ~IsOffsetMode(SplitCode(c).left)
  /\ SearchStart(HexToRegex(SplitCode(c).left),
                 SearchReplaceBytes(SplitCode(c).right))
  /\ idx' = idx + 1
  /\ code' = c
  /\ before' = BufferForDirective(binary_data, patched_data)
  /\ patched_data' = BufferForDirective(binary_data, patched_data)
  /\ count' = 0
  /\ UNCHANGED <<exists, disk, verbose, exc, binary_data,
                 total_patches_applied, writes>>
  /\ UNCHANGED <<patcherVars, manifestVars>>

\* the scan has left its loop: the "not found" warning, the return and the
\* update of the total in patch_codes
ScanReturn(extra) ==
  /\ msgs' = msgs \cup extra \cup
               (IF patches_in_this_code = 0 THEN {"NotFound"} ELSE {})
  /\ count' = patches_in_this_code
  /\ total_patches_applied' = total_patches_applied + patches_in_this_code
  /\ pc' = "Loop"
  /\ UNCHANGED <<patched_data, exc, scanVars>>

\* one pass of the while loop of _apply_search_replace_patch
ScanStep ==
  /\ pc = "Scan"
  /\ LET found_offset   == RegexSearch(regex, patched_data, current_offset)
         end_of_replace == EndOfReplace(found_offset, replace_bytes)
     IN  IF current_offset < Len(patched_data) /\ found_offset # -1
         THEN IF verbose /\ MsgRaises("done")
              THEN /\ pc' = "Raised"
                   /\ exc' = "AttributeError"
                   /\ UNCHANGED <<patched_data, total_patches_applied, count,
                                  msgs, scanVars>>
              ELSE IF SearchOutOfBounds(end_of_replace, patched_data)
              THEN ScanReturn({"OutOfBounds"})
              ELSE /\ patched_data' = SliceAssign(patched_data, found_offset,
                                                  end_of_replace, replace_bytes)
                   /\ patches_in_this_code' = CountUp(patches_in_this_code)
                   /\ current_offset' =
                        NextOffset(found_offset, end_of_replace, regex)
                   /\ found' = IF Len(found) < PatchCap
                               THEN Append(found, found_offset) ELSE found
                   /\ UNCHANGED <<pc, exc, total_patches_applied, count, msgs,
                                  regex, replace_bytes>>
         ELSE ScanReturn({})
  /\ UNCHANGED <<exists, disk, verbose, binary_data, idx, code, before, writes>>
  /\ UNCHANGED <<patcherVars, manifestVars>>

\* after the last directive: the write when something was patched (the
\* file is closed before msg.done is called), or nothing
Finish ==
  /\ pc = "Loop"
  /\ IF ShouldWrite(total_patches_applied)
     THEN /\ writes' = writes + 1
          /\ \/ /\ disk' = WrittenContent(patched_data)
                /\ pc' = "Committed"
                /\ exc' = IF MsgRaises("done") THEN "AttributeError" ELSE "none"
                /\ UNCHANGED msgs
             \/ /\ disk' \in {disk} \cup
                     {SubSeq(patched_data, 1, k) : k \in 0..(Len(patched_data) - 1)}
                /\ pc' = "WriteFailed"
                /\ msgs' = {"WriteError"}
                /\ UNCHANGED exc
     ELSE /\ pc' = "Unchanged"
          /\ UNCHANGED <<disk, exc, msgs, writes>>
  /\ UNCHANGED <<exists, verbose, binary_data, patched_data,
                 total_patches_applied, idx, code, before, count, scanVars>>
  /\ UNCHANGED <<patcherVars, manifestVars>>

Next ==
  \/ Load
  \/ \E c \in CodesFor(binary_data) : SkipMalformed(c)
  \/ \E c \in CodesFor(binary_data) : OffsetDirective(c)
  \/ \E c \in CodesFor(binary_data) : SearchDirective(c)
  \/ ScanStep
  \/ Finish

Spec == Init /\ [][Next]_vars

\* ------------------------------------------------- the matcher on its own
\* _hex_to_regex and the search of a compiled pattern, on a pattern spec
\* (code) and a byte slice (patched_data) of their own
MatcherInit ==
  /\ PatcherIdle
  /\ ManifestIdle
  /\ exists = TRUE
  /\ disk = <<>>
  /\ verbose = FALSE
  /\ pc = "Start"
  /\ exc = "none"
  /\ binary_data = <<>>
  /\ patched_data \in MatcherSlices
  /\ total_patches_applied = 0
  /\ idx = 0
  /\ code \in MatcherSpecs
  /\ before = <<>>
  /\ count = 0
  /\ msgs = {}
  /\ regex = <<>>
  /\ replace_bytes = <<>>
  /\ current_offset = 0
  /\ patches_in_this_code = 0
  /\ found = <<>>
  /\ writes = 0

\* _hex_to_regex(code): the compiled pattern, or None with its message
MatcherCompile ==
  /\ pc = "Start"
  /\ IF HexToRegex(code).ok
     THEN /\ regex' = HexToRegex(code).pat
          /\ pc' = "Compiled"
          /\ UNCHANGED msgs
     ELSE /\ msgs' = {HexToRegex(code).msg}
          /\ pc' = "NoMatcher"
          /\ UNCHANGED regex
  /\ UNCHANGED <<exists, disk, verbose, exc, binary_data, patched_data,
                 total_patches_applied, idx, code, before, count,
                 replace_bytes, current_offset, patches_in_this_code, found,
                 writes>>
  /\ UNCHANGED <<patcherVars, manifestVars>>

\* regex.search(patched_data, 0) with the pattern as re compiles it
MatcherSearch ==
  /\ pc = "Compiled"
  /\ found' = IF ReSearch(RegexSource(regex), patched_data, 0) = -1 THEN <<>>
              ELSE <<ReSearch(RegexSource(regex), patched_data, 0)>>
  /\ pc' = "Searched"
  /\ UNCHANGED <<exists, disk, verbose, exc, binary_data, patched_data,
                 total_patches_applied, idx, code, before, count, msgs, regex,
                 replace_bytes, current_offset, patches_in_this_code, writes>>
  /\ UNCHANGED <<patcherVars, manifestVars>>

MatcherNext == MatcherCompile \/ MatcherSearch

MatcherSpec == MatcherInit /\ [][MatcherNext]_vars

\* the batch runs to its end unless it is stuck in a loop of its own:
\* patch_codes is one synchronous call
FairSpec == Spec /\ WF_vars(Next)

TypeOK ==
  /\ pc \in {"Start", "Loop", "Scan", "Committed", "Unchanged", "WriteFailed",
             "Aborted", "Raised", "Compiled", "NoMatcher", "Searched", "Idle"}
  /\ exc \in {"none", "AttributeError"}
  /\ total_patches_applied \in Nat
  /\ idx \in 0..MaxCodes
  /\ writes \in 0..1

\* ------------------------------------------------------------ src/patcher.py
\* pattern.split(" "): the parts between the spaces, always at least one
RECURSIVE SplitSpace(_, _)
SplitSpace(str, cur) ==
  IF str = <<>> THEN <<cur>>
  ELSE IF Head(str) = " " THEN <<cur>> \o SplitSpace(Tail(str), <<>>)
  ELSE SplitSpace(Tail(str), Append(cur, Head(str)))

\* repl.replace(" ", "")
RemoveSpaces(str) == SelectSeq(str, LAMBDA c : c # " ")

\* the list pattern_bytes of wildcard_pattern_scan: None (Wild) for "??",
\* int(b, 16) for every other part
PatternBytes(parts) ==
  [k \in 1..Len(parts) |->
     IF parts[k] = <<"?", "?">> THEN Wild ELSE IntBase16(parts[k]).val]

\* len(data[: -pattern_length + 1]) for data of n bytes: a stop of 0 is
\* the empty slice, a negative stop counts from the end
ScanRange(n, pattern_length) ==
  IF 0 - pattern_length + 1 = 0 THEN 0
  ELSE IF n - pattern_length + 1 < 0 THEN 0
  ELSE n - pattern_length + 1

\* all(p_b is None or p_b == data[i + j] for j, p_b in enumerate(..))
AllMatch(pattern_bytes, bytes, i) ==
  \A j \in 1..Len(pattern_bytes) :
     pattern_bytes[j] = Wild \/ pattern_bytes[j] = bytes[i + j]

\* the loop of wildcard_pattern_scan over the indices of the slice
ScanFirst(pattern_bytes, bytes) ==
  LET hits == {i \in 0..(ScanRange(Len(bytes), Len(pattern_bytes)) - 1) :
                 AllMatch(pattern_bytes, bytes, i)}
  IN  IF hits = {} THEN -1
      ELSE CHOOSE i \in hits : \A k \in hits : i <= k

\* wildcard_pattern_scan(data, pattern)
WildcardPatternScan(bytes, pattern) ==
  ScanFirst(PatternBytes(SplitSpace(pattern, <<>>)), bytes)

\* data[offset: offset + len(repl_bytes)] = repl_bytes
ReplaceBytes(bytes, start, repl_bytes) ==
  SliceAssign(bytes, start, start + Len(repl_bytes), repl_bytes)

\* replace_hex_at_offset(data, offset, repl)
ReplaceHexAtOffset(bytes, start, repl) ==
  ReplaceBytes(bytes, start, BytesFromHex(RemoveSpaces(repl)).val)

\* the loop of find_offset_by_method_name from line i on (i counts from
\* 1): a line of the dump is the set of method names in it and the digits
\* after "Offset: 0x" in it, none when the line has no such text
RECURSIVE FindFrom(_, _, _)
FindFrom(method_name, dlines, i) ==
  IF i > Len(dlines) THEN NoneOffset
  ELSE IF method_name \in dlines[i].names /\ i > 1
            /\ dlines[i - 1].offset_hex # <<>>
       THEN IntBase16(dlines[i - 1].offset_hex).val
  ELSE FindFrom(method_name, dlines, i + 1)

\* find_offset_by_method_name(method_name, dump_path)
FindOffsetByMethodName(method_name, readable, dlines) ==
  IF ~readable THEN NoneOffset ELSE FindFrom(method_name, dlines, 1)

\* what the method_name branch of patch_code gives for the offset found
MethodOffset(found_offset) ==
  IF found_offset = NoneOffset
  THEN [skip |-> TRUE, offset |-> NoneOffset, msg |-> "MethodNotFound"]
  ELSE [skip |-> FALSE, offset |-> found_offset, msg |-> "none"]

\* what the wildcard branch of patch_code gives for the result of the scan
WildcardOffset(scanned) ==
  IF scanned = -1
  THEN [skip |-> TRUE, offset |-> -1, msg |-> "NoMatch"]
  ELSE [skip |-> FALSE, offset |-> scanned, msg |-> "none"]

\* the offset patch_code finds for a patch p, or the skip with what it
\* prints; previous is the offset the loop had before
PatchOffset(p, bytes, readable, dlines, previous) ==
  IF "method_name" \in p.keys
  THEN MethodOffset(FindOffsetByMethodName(p.method_name, readable, dlines))
  ELSE IF "offset" \in p.keys
  THEN [skip |-> FALSE, offset |-> IntBase16(p.offset).val, msg |-> "none"]
  ELSE IF "wildcard" \in p.keys
  THEN WildcardOffset(WildcardPatternScan(bytes, p.wildcard))
  ELSE [skip |-> TRUE, offset |-> previous, msg |-> "NoDefinition"]

\* the range test of patch_code
OffsetOutOfRange(start, bytes) == start >= Len(bytes)

\* a write that is left out when no patch was applied
WritesOutputIfChanged(before_patches, after_patches) ==
  before_patches # after_patches

\* the write after the loop of patch_code has no condition
WritesOutput(before_patches, after_patches) == TRUE

\* the patches: well-formed entries of patch_list
PatchEntry(ks, m, o, w, h) ==
  [keys |-> ks \cup {"hex_code"}, method_name |-> m, offset |-> o,
   wildcard |-> w, hex_code |-> h]

PatchEntries ==
  { PatchEntry({"offset"}, <<>>, at0, <<>>, t00),
    PatchEntry({"offset"}, <<>>, at1, <<>>, t00 \o Sp \o t00),
    PatchEntry({"offset"}, <<>>, <<"0", "x", "9">>, <<>>, t00),
    PatchEntry({"wildcard"}, <<>>, <<>>, tAA, t00),
    PatchEntry({"wildcard"}, <<>>, <<>>, tWW \o Sp \o tBB, t00 \o Sp \o t00),
    PatchEntry({"wildcard"}, <<>>, <<>>, tAA \o Sp \o tWW \o Sp \o tAA, t00),
    PatchEntry({"method_name"}, "Foo", <<>>, <<>>, t00),
    PatchEntry({"method_name"}, "Bar", <<>>, <<>>, t00),
    PatchEntry({"method_name", "offset"}, "Bar", at0, <<>>, t00),
    PatchEntry({}, <<>>, <<>>, <<>>, t00) }

\* the dump files: the method after the line with its offset, the method
\* on the first line and after a line without offset, and both
DumpLine(o, ns) == [offset_hex |-> o, names |-> ns]

DumpFiles ==
  { << DumpLine(<<"1">>, {}), DumpLine(<<>>, {"Foo"}) >>,
    << DumpLine(<<>>, {"Foo"}), DumpLine(<<>>, {"Foo"}) >>,
    << DumpLine(<<>>, {"Foo"}), DumpLine(<<"2">>, {}), DumpLine(<<>>, {"Foo"}) >> }

PatcherInit ==
  /\ HexIdle
  /\ ManifestIdle
  /\ input_exists \in BOOLEAN
  /\ input_file \in (IF input_exists THEN SeqsUpTo(GenBytes, MaxLen) ELSE {<<>>})
  /\ dump_readable \in BOOLEAN
  /\ dump_lines \in (IF dump_readable THEN DumpFiles ELSE {<<>>})
  /\ ppc = "Start"
  /\ data = <<>>
  /\ pidx = 0
  /\ patch = NoPatch
  /\ offset = NoneOffset
  /\ data_before = <<>>
  /\ plog = {}
  /\ output_file = <<>>
  /\ output_writes = 0

\* patch_code up to the loop: the existence test and the read
PatcherLoad ==
  /\ ppc = "Start"
  /\ \/ /\ ~input_exists
        /\ ppc' = "Aborted"
        /\ plog' = {"InputNotFound"}
        /\ UNCHANGED data
     \/ /\ input_exists
        /\ ppc' = "Aborted"
        /\ plog' = {"ReadError"}
        /\ UNCHANGED data
     \/ /\ input_exists
        /\ ppc' = "Loop"
        /\ data' = input_file
        /\ plog' = {}
  /\ UNCHANGED <<input_exists, input_file, dump_readable, dump_lines, pidx,
                 patch, offset, data_before, output_file, output_writes>>
  /\ UNCHANGED <<hexVars, manifestVars>>

\* the rest of one pass of the loop once the offset r has been found: the
\* skip, the range test, the replacement
PatchApply(p, r) ==
  /\ offset' = r.offset
  /\ IF r.skip
     THEN /\ plog' = {r.msg}
          /\ UNCHANGED data
     ELSE IF OffsetOutOfRange(r.offset, data)
     THEN /\ plog' = {"OutOfRange"}
          /\ UNCHANGED data
     ELSE /\ plog' = {"Patching"}
          /\ data' = ReplaceHexAtOffset(data, r.offset, p.hex_code)

\* one pass of the loop of patch_code
PatcherPatch(p) ==
  /\ ppc = "Loop"
  /\ pidx < MaxPatches
  /\ PatchApply(p, PatchOffset(p, data, dump_readable, dump_lines, offset))
  /\ pidx' = pidx + 1
  /\ patch' = p
  /\ data_before' = data
  /\ UNCHANGED <<input_exists, input_file, dump_readable, dump_lines, ppc,
                 output_file, output_writes>>
  /\ UNCHANGED <<hexVars, manifestVars>>

\* after the last patch: the write of the output file
PatcherWrite ==
  /\ ppc = "Loop"
  /\ IF WritesOutput(input_file, data)
     THEN /\ output_writes' = output_writes + 1
          /\ \/ /\ output_file' = data
                /\ ppc' = "Done"
                /\ plog' = {"Completed"}
             \/ /\ output_file' \in
                     {output_file} \cup {SubSeq(data, 1, k) : k \in 0..(Len(data) - 1)}
                /\ ppc' = "WriteFailed"
                /\ plog' = {"WriteError"}
     ELSE /\ ppc' = "Done"
          /\ UNCHANGED <<output_file, output_writes, plog>>
  /\ UNCHANGED <<input_exists, input_file, dump_readable, dump_lines, data,
                 pidx, patch, offset, data_before>>
  /\ UNCHANGED <<hexVars, manifestVars>>

PatcherNext ==
  \/ PatcherLoad
  \/ \E p \in PatchEntries : PatcherPatch(p)
  \/ PatcherWrite

PatcherSpec == PatcherInit /\ [][PatcherNext]_vars

\* ------------------------- src/demodapk/patch.py, remove_metadata_from_manifest
\* needle in text: a line is the sequence of its words, a string of the
\* list is a sequence of words, and the empty string is in every line
Contains(needle, text) ==
  \E i \in 0..(Len(text) - Len(needle)) :
     SubSeq(text, i + 1, i + Len(needle)) = needle

\* isinstance(meta, str) and meta.strip()
IsValidMeta(meta) == meta.is_str /\ Strip(meta.text) # <<>>

\* the list comprehension that builds metadata_to_remove
RECURSIVE ValidMetas(_)
ValidMetas(entries) ==
  IF entries = <<>> THEN <<>>
  ELSE IF IsValidMeta(Head(entries))
       THEN <<Head(entries).text>> \o ValidMetas(Tail(entries))
       ELSE ValidMetas(Tail(entries))

\* any(meta in line for meta in metadata_to_remove)
AnyMetaIn(text, metas) ==
  \E k \in 1..Len(metas) : Contains(metas[k], text)

\* "/>" in line
ClosesTag(text) == Contains(<<"/>">>, text)

\* the body of the loop over the lines: the new skip and whether the line
\* is appended to filtered_lines
FilterStep(text, skipping, metas) ==
  IF AnyMetaIn(text, metas) THEN [skip |-> TRUE, keep |-> FALSE]
  ELSE IF skipping /\ ClosesTag(text) THEN [skip |-> FALSE, keep |-> FALSE]
  ELSE [skip |-> skipping, keep |-> TRUE]

\* the elements of a manifest: meta-data entries on one, two and three
\* lines, another self-closing element, an opening tag
MetaOneLine(n) == << <<"<meta-data", n, "value", "/>">> >>
MetaTwoLines(n) == << <<"<meta-data", n>>, <<"value", "/>">> >>
MetaThreeLines(n) == << <<"<meta-data", n>>, <<"value">>, <<"/>">> >>

ManifestElements ==
  { MetaOneLine("X"), MetaOneLine("Y"), MetaTwoLines("X"),
    MetaThreeLines("X"), << <<"<activity", "A", "/>">> >>,
    << <<"<application>">> >> }

RECURSIVE Flatten(_)
Flatten(elems) ==
  IF elems = <<>> THEN <<>> ELSE Head(elems) \o Flatten(Tail(elems))

Manifests == {Flatten(e) : e \in SeqsUpTo(ManifestElements, MaxElems)}

\* the entries of the configured list: names, the empty string, a blank
\* string, and a value that is not a string
MetaEntries ==
  { [is_str |-> TRUE, text |-> <<"X">>], [is_str |-> TRUE, text |-> <<"Y">>],
    [is_str |-> TRUE, text |-> <<>>], [is_str |-> TRUE, text |-> <<" ">>],
    [is_str |-> FALSE, text |-> <<>>] }

ConfigLists == SeqsUpTo(MetaEntries, MaxNames)

ManifestInit ==
  /\ HexIdle
  /\ PatcherIdle
  /\ manifest_isfile \in BOOLEAN
  /\ manifest_file \in (IF manifest_isfile THEN Manifests ELSE {<<>>})
  /\ config_file \in ConfigLists
  /\ metadata_to_remove = <<>>
  /\ mpc = "Start"
  /\ lines = <<>>
  /\ line_idx = 0
  /\ filtered_lines = <<>>
  /\ skip = FALSE
  /\ manifest_writes = 0

\* up to the loop: the list of names, the early return, the isfile test
\* and the read
ManifestStart ==
  /\ mpc = "Start"
  /\ metadata_to_remove' = ValidMetas(config_file)
  /\ IF ValidMetas(config_file) = <<>>
     THEN mpc' = "Returned" /\ UNCHANGED lines
     ELSE IF manifest_isfile
     THEN mpc' = "Loop" /\ lines' = manifest_file
     ELSE mpc' = "Missing" /\ UNCHANGED lines
  /\ UNCHANGED <<manifest_isfile, manifest_file, config_file, line_idx,
                 filtered_lines, skip, manifest_writes>>
  /\ UNCHANGED <<hexVars, patcherVars>>

\* what one pass of the loop does with the result r of its tests
ManifestKeep(text, r) ==
  /\ skip' = r.skip
  /\ filtered_lines' =
       IF r.keep THEN Append(filtered_lines, text) ELSE filtered_lines

\* one pass of the loop over the lines
ManifestLine ==
  /\ mpc = "Loop"
  /\ line_idx < Len(lines)
  /\ ManifestKeep(lines[line_idx + 1],
                  FilterStep(lines[line_idx + 1], skip, metadata_to_remove))
  /\ line_idx' = line_idx + 1
  /\ UNCHANGED <<manifest_isfile, manifest_file, config_file,
                 metadata_to_remove, mpc, lines, manifest_writes>>
  /\ UNCHANGED <<hexVars, patcherVars>>

\* after the loop: the filtered lines are written back
ManifestWrite ==
  /\ mpc = "Loop"
  /\ line_idx = Len(lines)
  /\ manifest_file' = filtered_lines
  /\ manifest_writes' = manifest_writes + 1
  /\ mpc' = "Done"
  /\ UNCHANGED <<manifest_isfile, config_file, metadata_to_remove, lines,
                 line_idx, filtered_lines, skip>>
  /\ UNCHANGED <<hexVars, patcherVars>>

ManifestNext ==
  \/ ManifestStart
  \/ ManifestLine
  \/ ManifestWrite

ManifestSpec == ManifestInit /\ [][ManifestNext]_vars

\* ------------------------------------------------------------------ claims
Ended == pc \in {"Committed", "Unchanged", "WriteFailed"}

\* C1: patch_codes opens the target file for writing at most once per
\* batch, only after the last directive has been processed, and it does so
\* if and only if the running total is greater than 0; a write that succeeds
\* stores the whole mutated buffer, and while nothing has been written the
\* file holds what was read.
C1_OneWriteIffTotalPositive ==
  /\ writes <= 1
  /\ writes = 1 => Ended /\ total_patches_applied > 0
  /\ Ended => (writes = 1 <=> total_patches_applied > 0)
  /\ pc = "Committed" => disk = patched_data
  /\ (writes = 0 /\ pc \notin {"Start", "Aborted"}) => disk = binary_data

C1_Witness ==
  /\ pc = "Committed"
  /\ writes = 1
  /\ idx = 2
  /\ total_patches_applied = 2
  /\ disk # binary_data

\* the last directive taken from the batch has been processed to its end
AfterDirective == idx > 0 /\ pc \in {"Loop", "Committed", "Unchanged"}

\* the mode of the last directive taken from the batch
LastIsOffset ==
  idx > 0 /\ SplitCode(code).ok /\ IsOffsetMode(SplitCode(code).left)

LastIsSearch ==
  idx > 0 /\ SplitCode(code).ok /\ ~IsOffsetMode(SplitCode(code).left)

\* C2 as stated: the file is never written when the buffer after all
\* directives is byte-for-byte equal to the content that was read.
C2_NoWriteWhenNothingChanged ==
  (Ended /\ patched_data = binary_data) => writes = 0

\* C2 as amended: the file is never written when no directive patched an
\* occurrence; a batch whose buffer ends equal to the content read is still
\* written when some directive patched an occurrence with the bytes already
\* there, and a write that succeeds then leaves the file content as read.
C2_UnchangedBufferWrittenIffPatched ==
  (Ended /\ patched_data = binary_data) =>
     /\ writes = 1 <=> total_patches_applied > 0
     /\ pc = "Committed" => disk = binary_data

C2_Witness ==
  /\ pc = "Committed"
  /\ patched_data = binary_data
  /\ writes = 1
  /\ count = 1
  /\ LastIsOffset

\* C3: while the running total is 0 the buffer equals the loaded content
\* and the file is untouched, and a batch that ends with total 0 ends
\* without a write; buffer 11 22 33 with 'FF FF | 00 00' gives zero
\* occurrences, "not found", and an unchanged buffer.
C3_NoOpCommit ==
  /\ (pc \in {"Loop", "Unchanged"} /\ total_patches_applied = 0) =>
        /\ patched_data = binary_data
        /\ disk = binary_data
        /\ writes = 0
  /\ (Ended /\ total_patches_applied = 0) => pc = "Unchanged"
  /\ (AfterDirective /\ before = buf1122 /\ code = codeSearchAbsent) =>
        /\ count = 0
        /\ "NotFound" \in msgs
        /\ patched_data = before

C3_Witness ==
  /\ pc = "Unchanged"
  /\ idx = 2
  /\ binary_data = buf1122
  /\ code = codeSearchAbsent
  /\ "NotFound" \in msgs
  /\ disk = buf1122

RECURSIVE WriteAll(_, _, _)
WriteAll(buf, offs, repl) ==
  IF offs = <<>> THEN buf
  ELSE WriteAll(SliceAssign(buf, Head(offs), Head(offs) + Len(repl), repl),
                Tail(offs), repl)

LastLeft == SplitCode(code).left
LastRight == SplitCode(code).right
LastOffset == IntBase16(LastLeft).val
LastTokens == PatternTokens(RemoveWhitespace(LastRight)).val

\* the replacement is one or more pairs, each "??" or two hex digits
ValidReplacement(str) ==
  /\ Len(RemoveWhitespace(str)) >= 2
  /\ Len(RemoveWhitespace(str)) % 2 = 0
  /\ PatternTokens(RemoveWhitespace(str)).ok

\* some pair of the replacement is "??"
HasWildToken(str) ==
  \E k \in 1..(Len(RemoveWhitespace(str)) \div 2) :
     /\ RemoveWhitespace(str)[2 * k - 1] = "?"
     /\ RemoveWhitespace(str)[2 * k] = "?"

\* data with the literal tokens of toks laid over it from offset off on
Overlay(buf, off, toks) ==
  [i \in 1..Len(buf) |->
     IF i > off /\ i <= off + Len(toks) /\ toks[i - off] # Wild
     THEN toks[i - off] ELSE buf[i]]

\* the last directive is an offset directive with a valid offset and a
\* valid replacement of at least one token
LastIsValidOffset ==
  LastIsOffset /\ IntBase16(LastLeft).ok /\ ValidReplacement(LastRight)

\* C5: an offset directive '0x<off> | <M tokens>' (valid hex, M >= 1) on a
\* buffer of length n fails, leaves the buffer unchanged and adds 0 when
\* off + M > n; when off + M <= n the M resolved bytes are written at
\* [off, off+M), every other byte is unchanged and it adds exactly 1.
C5_OffsetDirective ==
  LastIsValidOffset =>
     IF LastOffset + Len(LastTokens) > Len(before)
     THEN patched_data = before /\ count = 0
     ELSE patched_data = Overlay(before, LastOffset, LastTokens) /\ count = 1

C7_WildcardPreservation ==
  /\ LastIsValidOffset =>
        /\ \A i \in 1..Len(LastTokens) :
              (LastTokens[i] = Wild /\ LastOffset + i <= Len(before)) =>
                 /\ LastOffset + i <= Len(patched_data)
                 /\ patched_data[LastOffset + i] = before[LastOffset + i]
        /\ (count = 1 \/ pc = "Raised") =>
              \A i \in 1..Len(LastTokens) :
                 LastTokens[i] # Wild =>
                    /\ LastOffset + i <= Len(patched_data)
                    /\ patched_data[LastOffset + i] = LastTokens[i]
  /\ (LastIsSearch /\ HasWildToken(LastRight) /\ AfterDirective) =>
        patched_data = before

C7_Witness ==
  /\ pc = "Loop"
  /\ code = at1 \o Bar \o t00 \o Sp \o tWW
  /\ before = <<170, 170, 187>>
  /\ patched_data = <<170, 0, 187>>
  /\ count = 1

\* C8: within one search directive the cursor after a match at offset o is
\* o + M, and the regions [o_k, o_k + L) of successive matches are pairwise
\* disjoint, for every pattern length L and replacement length M.
C8_MatchesDisjoint ==
  /\ (pc = "Scan" /\ found # <<>>) =>
        current_offset = found[Len(found)] + Len(replace_bytes)
  /\ \A k, l \in 1..Len(found) :
        k < l => found[k] + Len(regex) <= found[l]

\* C9: once the buffer is loaded the batch eventually ends, committed or
\* unchanged (a write the file system refuses counts as ended here).
C9_Terminates ==
  (pc = "Loop") ~> (pc \in {"Committed", "Unchanged", "WriteFailed"})

\* what a directive can log when it is skipped or fails
DirectiveErrors ==
  {"InvalidFormat", "InvalidOffset", "OddLength", "InvalidHex", "NotFound",
   "OutOfBounds"}

\* C10: a directive-level error never aborts the batch: after it the batch
\* is back at the head of its loop with no exception raised, a directive
\* that failed with count 0 has left the buffer as the earlier directives
\* made it, the write decision depends only on the total, and a committed
\* file whose last directive failed reflects the earlier directives only.
C10_ErrorsDoNotAbort ==
  /\ (msgs \cap DirectiveErrors # {}) =>
        /\ pc \in {"Loop", "Committed", "Unchanged"}
        /\ exc # "none" => pc = "Committed"
  /\ (AfterDirective /\ msgs \cap DirectiveErrors # {} /\ count = 0) =>
        patched_data = before
  /\ (pc \in {"Committed", "Unchanged"} /\ msgs \cap DirectiveErrors # {}) =>
        (writes = 1 <=> total_patches_applied > 0)
  /\ (pc = "Committed" /\ msgs \cap DirectiveErrors # {} /\ count = 0) =>
        disk = before

C10_Witness ==
  /\ pc = "Committed"
  /\ idx = 2
  /\ "OddLength" \in msgs
  /\ count = 0
  /\ total_patches_applied = 1
  /\ disk = before
  /\ disk # binary_data

\* the last directive has no "??" pair on either side
LastIsLiteral == ~HasWildToken(LastLeft) /\ ~HasWildToken(LastRight)

\* the byte data[i] lies in the region of Len(regex) bytes of some match
\* of the last scan
InMatchedRegion(i) ==
  \E k \in 1..Len(found) : found[k] < i /\ i <= found[k] + Len(regex)

\* C11: literal round-trip: after a directive without wildcard tokens on
\* either side that applied, the buffer holds the literal replacement bytes
\* at the offset (offset mode) or at every match (search mode), and every
\* byte outside the M bytes at the offset, or outside the regions
\* [o, o+L) of the matches of the L-token pattern, is unchanged.
C11_LiteralRoundTrip ==
  (AfterDirective /\ LastIsLiteral /\ count >= 1) =>
     /\ (LastIsOffset /\ ValidReplacement(LastRight)) =>
           patched_data = Overlay(before, LastOffset, LastTokens)
     /\ LastIsSearch =>
           /\ Len(patched_data) = Len(before)
           /\ \A k \in 1..Len(found) : \A j \in 1..Len(replace_bytes) :
                 /\ found[k] + j <= Len(patched_data)
                 /\ patched_data[found[k] + j] = replace_bytes[j]
           /\ \A i \in 1..Len(before) :
                 ~InMatchedRegion(i) => patched_data[i] = before[i]

\* what the last directive, an offset directive, gives on the buffer it
\* started from when the verbose flag is off
LastOffsetQuiet == ApplyOffsetPatch(LastLeft, LastRight, before, FALSE)

\* C12: the verbose flag does not affect behaviour: whatever the flag of
\* the batch, an offset directive leaves the buffer, the count and the
\* control state that the same directive leaves on the same buffer with
\* verbose = false, and a search directive never ends the batch with an
\* exception (with verbose = false it never does).
C12_VerboseIrrelevant ==
  /\ (LastIsOffset /\ pc \in {"Loop", "Raised"}) =>
        /\ pc = "Loop"
        /\ patched_data = LastOffsetQuiet.data
        /\ count = (IF LastOffsetQuiet.applied THEN 1 ELSE 0)
  /\ LastIsSearch => pc # "Raised"

\* C13: the directives of a batch are applied one after the other against
\* the progressively mutated buffer: each directive starts from the buffer
\* as the directives before it left it, an offset directive resolves its
\* replacement (its '??' tokens included) against that buffer, a search
\* directive starts its scan on it, and every match a scan patches is a
\* match in the buffer as it is at that moment.
C13_AppliedInOrder ==
  [][ /\ idx' # idx =>
           /\ idx' = idx + 1
           /\ before' = patched_data
           /\ (SplitCode(code').ok /\ IsOffsetMode(SplitCode(code').left)) =>
                 patched_data' =
                   ApplyOffsetPatch(SplitCode(code').left, SplitCode(code').right,
                                    patched_data, verbose).data
           /\ pc' = "Scan" => patched_data' = patched_data
      /\ (pc = "Scan" /\ Len(found') > Len(found)) =>
           MatchesAt(regex, patched_data, found'[Len(found')])
    ]_vars

C13_Witness ==
  /\ pc = "Loop"
  /\ idx = 2
  /\ code = at0 \o Bar \o tWW
  /\ binary_data = <<170>>
  /\ before = <<0>>
  /\ patched_data = <<0>>
  /\ count = 1
  /\ total_patches_applied = 2

\* C14: when the target file does not exist or cannot be read, patch_codes
\* aborts before any mutation: a missing file always aborts, the abort
\* happens at the load and nowhere else, it leaves the file, the buffer
\* and the total as they were, and nothing runs after it, so no directive
\* is processed and the file is never opened for writing.
C14_AbortBeforeMutation ==
  [][ /\ (pc = "Start" /\ ~exists) => pc' = "Aborted"
      /\ pc' = "Aborted" =>
           /\ pc = "Start"
           /\ msgs' \in {{"FileNotFound"}, {"ReadError"}}
           /\ disk' = disk
           /\ patched_data' = patched_data
           /\ idx' = 0
           /\ total_patches_applied' = 0
           /\ writes' = 0
      /\ pc # "Aborted"
    ]_vars

C14_Witness ==
  /\ pc = "Aborted"
  /\ exists
  /\ msgs = {"ReadError"}
  /\ disk = bufDEAD
  /\ idx = 0
  /\ writes = 0

\* the scan is about to find a match whose replacement would end past the
\* end of the buffer
MatchPastEnd ==
  /\ pc = "Scan"
  /\ current_offset < Len(patched_data)
  /\ RegexSearch(regex, patched_data, current_offset) # -1
  /\ RegexSearch(regex, patched_data, current_offset) + Len(replace_bytes)
       > Len(patched_data)

\* C15: in a search directive a match at an offset o with o + M greater
\* than the buffer length is not applied and ends the scan; the matches
\* applied earlier in the same directive stay in the buffer and stay
\* counted in what the directive returns.
C15_OutOfBoundsMatchStopsScan ==
  [][ MatchPastEnd =>
        /\ patched_data' = patched_data
        /\ patched_data' = WriteAll(before, found, replace_bytes)
        /\ found' = found
        /\ pc' # "Scan"
        /\ ~verbose =>
             /\ pc' = "Loop"
             /\ "OutOfBounds" \in msgs'
             /\ count' = Len(found)
             /\ total_patches_applied' = total_patches_applied + Len(found)
    ]_vars

C15_Witness ==
  /\ pc = "Loop"
  /\ code = tAA \o Bar \o t00 \o Sp \o t00
  /\ before = <<170, 187, 170>>
  /\ found = <<0>>
  /\ patched_data = <<0, 0, 170>>
  /\ count = 1
  /\ "OutOfBounds" \in msgs

\* C16: in a search directive the cursor starts at 0; every patched offset
\* is the smallest offset at or after the cursor at which the pattern
\* matches the buffer as it is then, and the cursor moves to that offset
\* plus M; the scan ends, writing nothing more, at the first cursor from
\* which there is no match; every write to the buffer is a recorded patch,
\* and the count the directive returns is the number of writes it made.
C16_LeftmostMatchFromCursor ==
  [][ /\ (pc = "Loop" /\ pc' = "Scan") =>
           current_offset' = 0 /\ found' = <<>>
      /\ (pc = "Scan" /\ Len(found') > Len(found)) =>
           /\ found'[Len(found')] >= current_offset
           /\ MatchesAt(regex, patched_data, found'[Len(found')])
           /\ \A j \in current_offset..(found'[Len(found')] - 1) :
                 ~MatchesAt(regex, patched_data, j)
           /\ current_offset' = found'[Len(found')] + Len(replace_bytes)
           /\ patches_in_this_code' = Len(found')
      /\ (pc = "Scan" /\ \A j \in current_offset..Len(patched_data) :
                            ~MatchesAt(regex, patched_data, j)) =>
           /\ pc' = "Loop"
           /\ patched_data' = patched_data
      /\ (pc = "Scan" /\ patched_data' # patched_data) =>
           Len(found') = Len(found) + 1
      /\ (pc = "Scan" /\ pc' = "Loop") =>
           /\ count' = Len(found)
           /\ found' = found
           /\ total_patches_applied' = total_patches_applied + Len(found)
    ]_vars

C16_Witness ==
  /\ pc = "Loop"
  /\ code = tAA \o Bar \o t00
  /\ before = <<187, 170, 170>>
  /\ found = <<1, 2>>
  /\ patched_data = <<187, 0, 0>>
  /\ count = 2
  /\ msgs = {}

\* the number of two-character tokens of one side of a directive
TokenCount(str) == Len(RemoveWhitespace(str)) \div 2

\* C17: a search directive whose replacement length M differs from its
\* pattern length L is not applied to the buffer: the buffer stays as it
\* was before the directive and the directive adds 0.
C17_LengthMismatchRejected ==
  (LastIsSearch /\ TokenCount(LastLeft) # TokenCount(LastRight)) =>
     /\ patched_data = before
     /\ AfterDirective => count = 0

\* the byte a literal token of the pattern spec in code stands for, and
\* whether the token is the wildcard (k counts the tokens from 1)
SpecTokenByte(k) ==
  16 * HexVal(RemoveWhitespace(code)[2 * k - 1])
    + HexVal(RemoveWhitespace(code)[2 * k])

SpecTokenWild(k) ==
  /\ RemoveWhitespace(code)[2 * k - 1] = "?"
  /\ RemoveWhitespace(code)[2 * k] = "?"

\* C18: the matcher _hex_to_regex compiles from a valid spec of L tokens
\* matches a slice of length L if and only if every literal token equals
\* the byte at its position: a '??' token matches every byte, 0x0A too,
\* and a literal token whose byte is a regex operator (2E, 2A, 5C) matches
\* that byte only; on a slice of any length the search of the compiled
\* regex finds what the comparison token by token finds.
C18_MatcherExact ==
  pc = "Searched" =>
     /\ Len(regex) = TokenCount(code)
     /\ Len(patched_data) = Len(regex) =>
           (found = <<0>> <=>
              \A k \in 1..Len(regex) :
                 SpecTokenWild(k) \/ SpecTokenByte(k) = patched_data[k])
     /\ found = (IF RegexSearch(regex, patched_data, 0) = -1 THEN <<>>
                 ELSE <<RegexSearch(regex, patched_data, 0)>>)

C18_Witness ==
  /\ pc = "Searched"
  /\ code = tWW \o Sp \o <<"2", "E">> \o Sp
  /\ patched_data = <<10, 46>>
  /\ found = <<0>>

\* the spec has an odd number of characters once the whitespace is removed
OddSpec(str) == Len(RemoveWhitespace(str)) % 2 = 1

\* some pair of the spec is neither "??" nor two hexadecimal digits
BadPair(str) ==
  \E k \in 1..TokenCount(str) :
     /\ ~(RemoveWhitespace(str)[2 * k - 1] = "?" /\ RemoveWhitespace(str)[2 * k] = "?")
     /\ ~(RemoveWhitespace(str)[2 * k - 1] \in HexChars
            /\ RemoveWhitespace(str)[2 * k] \in HexChars)

\* C19: a search directive whose pattern has an odd number of hex digits
\* after whitespace removal, or a pair that is neither '??' nor two
\* hexadecimal digits ('?A', 'ZZ'), compiles to no matcher: no scan is
\* started, the error is logged, the directive reports 0 occurrences and
\* the buffer is as it was before the directive.
C19_BadPatternNoMatcher ==
  (LastIsSearch /\ (OddSpec(LastLeft) \/ BadPair(LastLeft))) =>
     /\ pc \in {"Loop", "Committed", "Unchanged", "WriteFailed"}
     /\ patched_data = before
     /\ count = 0
     /\ pc = "Loop" =>
          msgs = (IF OddSpec(LastLeft) THEN {"OddLength"} ELSE {"InvalidHex"})

C19_Witness ==
  /\ pc = "Loop"
  /\ code = <<"?", "A">> \o Bar \o t00
  /\ before = <<170>>
  /\ patched_data = <<170>>
  /\ count = 0
  /\ msgs = {"InvalidHex"}

\* C20: a directive, offset or search, whose replacement spec has an odd
\* digit count or a non-wildcard pair that is not two hexadecimal digits
\* is skipped: it writes nothing to the buffer and adds 0 to the total.
C20_BadReplacementSkipped ==
  ((LastIsOffset \/ LastIsSearch)
      /\ (OddSpec(LastRight) \/ BadPair(LastRight))) =>
     /\ pc \in {"Loop", "Committed", "Unchanged", "WriteFailed"}
     /\ patched_data = before
     /\ count = 0

\* the trimmed left side of the last directive begins with 0x or 0X
LeftHas0x ==
  /\ Len(LastLeft) >= 2
  /\ LastLeft[1] = "0"
  /\ LastLeft[2] \in {"x", "X"}

\* C21: a directive is handled in offset mode exactly when its trimmed left
\* side begins with '0x' in either case, and in search mode otherwise: an
\* offset-mode directive never starts a scan and never logs what only a
\* search logs, a valid one in bounds is applied at its offset, and a
\* search-mode directive never logs an invalid offset; a directive that
\* does not split into exactly two parts, or an offset-mode left side that
\* is no hexadecimal number, is skipped with the buffer as it was and is
\* not run as a search.
C21_ModeByPrefix ==
  idx > 0 =>
     /\ ~SplitCode(code).ok =>
          /\ pc \in {"Loop", "Committed", "Unchanged", "WriteFailed"}
          /\ patched_data = before
          /\ count = 0
          /\ pc = "Loop" => msgs = {"InvalidFormat"}
     /\ (SplitCode(code).ok /\ LeftHas0x) =>
          /\ pc # "Scan"
          /\ msgs \cap {"NotFound", "InvalidFormat"} = {}
          /\ ~IntBase16(LastLeft).ok =>
               /\ patched_data = before
               /\ count = 0
               /\ pc = "Loop" => msgs = {"InvalidOffset"}
          /\ (IntBase16(LastLeft).ok /\ ValidReplacement(LastRight)
                /\ LastOffset + Len(LastTokens) <= Len(before)) =>
               patched_data = Overlay(before, LastOffset, LastTokens)
          /\ (IntBase16(LastLeft).ok /\ ValidReplacement(LastRight)
                /\ LastOffset + Len(LastTokens) <= Len(before)
                /\ ~verbose) => count = 1
     /\ (SplitCode(code).ok /\ ~LeftHas0x) =>
          /\ msgs \cap {"InvalidOffset", "InvalidFormat"} = {}
          /\ (AfterDirective /\ count = 0) =>
               msgs \cap {"OddLength", "InvalidHex", "NotFound"} # {}

C21_Witness ==
  /\ pc = "Loop"
  /\ code = <<"0", "X", "0">> \o Bar \o t00
  /\ before = <<170, 187>>
  /\ patched_data = <<0, 187>>
  /\ count = 1
  /\ msgs = {}

\* the two sides of the last directive with every whitespace character
\* removed, and what that directive gives in offset mode on the buffer the
\* last directive started from
LastLeftTight == RemoveWhitespace(LastLeft)
LastRightTight == RemoveWhitespace(LastRight)
LastOffsetTight ==
  ApplyOffsetPatch(LastLeftTight, LastRightTight, before, verbose)

\* C22: whitespace inside the hex strings of a directive is insignificant:
\* a directive gives the buffer and the count that the same directive
\* without any whitespace inside its two sides gives on the same buffer
\* (same mode, same offset outcome, same compiled pattern and replacement,
\* same rejection).
C22_WhitespaceInsignificant ==
  /\ (idx > 0 /\ SplitCode(code).ok) =>
        (IsOffsetMode(LastLeft) <=> IsOffsetMode(LastLeftTight))
  /\ (LastIsOffset /\ pc \in {"Loop", "Raised"}) =>
        /\ patched_data = LastOffsetTight.data
        /\ count = (IF LastOffsetTight.applied THEN 1 ELSE 0)
  /\ (LastIsSearch /\ pc = "Scan") =>
        /\ HexToRegex(LastLeftTight).ok
        /\ regex = HexToRegex(LastLeftTight).pat
        /\ SearchReplaceBytes(LastRightTight).ok
        /\ replace_bytes = SearchReplaceBytes(LastRightTight).val
  /\ (LastIsSearch /\ pc = "Loop"
        /\ msgs \cap {"OddLength", "InvalidHex"} # {}) =>
        (~HexToRegex(LastLeftTight).ok \/ ~SearchReplaceBytes(LastRightTight).ok)

\* C23: the buffer length is invariant: from the load on, whatever
\* directives have run, valid or not, the buffer is as long as the content
\* read from the file, and a committed file has the size of the original.
C23_LengthInvariant ==
  /\ pc \notin {"Start", "Aborted"} => Len(patched_data) = Len(binary_data)
  /\ \A i \in 1..Len(patched_data) : patched_data[i] \in 0..255
  /\ pc = "Committed" => Len(disk) = Len(binary_data)

C23_Witness ==
  /\ pc = "Committed"
  /\ idx = 2
  /\ LastIsSearch
  /\ Len(replace_bytes) = 2
  /\ Len(regex) = 1
  /\ count = 1
  /\ total_patches_applied = 2
  /\ disk # binary_data
  /\ Len(disk) = 3

\* C24: within one search directive with a replacement of M >= 1 bytes the
\* patched offsets increase by at least M from one to the next, so the
\* written regions [o_k, o_k + M) are pairwise disjoint, the cursor is at
\* the end of the last written region, and no match begins inside bytes
\* the directive wrote before.
C24_WrittenRegionsDisjoint ==
  Len(replace_bytes) >= 1 =>
     /\ \A k \in 1..(Len(found) - 1) :
           found[k + 1] >= found[k] + Len(replace_bytes)
     /\ \A k, l \in 1..Len(found) :
           k < l => found[k] + Len(replace_bytes) <= found[l]
     /\ (pc = "Scan" /\ found # <<>>) =>
           current_offset = found[Len(found)] + Len(replace_bytes)
     /\ \A k \in 1..Len(found) :
           found[k] + Len(replace_bytes) <= Len(patched_data)

C24_Witness ==
  /\ pc = "Loop"
  /\ code = tWW \o Sp \o tWW \o Bar \o t00
  /\ before = <<170, 170, 170>>
  /\ found = <<0, 1>>
  /\ patched_data = <<0, 0, 170>>
  /\ count = 2

\* the last directive is a search directive with an empty left side and a
\* literal replacement of at least one byte
LastIsEmptyPattern ==
  /\ LastIsSearch
  /\ LastLeftTight = <<>>
  /\ ValidReplacement(LastRight)
  /\ ~HasWildToken(LastRight)

\* C25: a search directive with an empty left side is not rejected: with a
\* replacement of M >= 1 bytes on a buffer of n bytes it runs to its end,
\* overwrites the buffer in consecutive chunks of M bytes from offset 0 on
\* (the first floor(n / M) * M bytes hold the replacement over and over,
\* the bytes after them are unchanged) and reports floor(n / M)
\* occurrences.
C25_EmptyPatternChunks ==
  (LastIsEmptyPattern /\ pc # "Scan") =>
     /\ pc # "Raised"
     /\ count = Len(before) \div TokenCount(LastRight)
     /\ Len(patched_data) = Len(before)
     /\ \A i \in 1..Len(before) :
           patched_data[i] =
             IF i <= TokenCount(LastRight) * (Len(before) \div TokenCount(LastRight))
             THEN LastTokens[((i - 1) % TokenCount(LastRight)) + 1]
             ELSE before[i]

\* what the last directive, an offset directive, gives when it is applied
\* once more, to the buffer it has just left
LastOffsetAgain == ApplyOffsetPatch(LastLeft, LastRight, patched_data, verbose)

\* C26: applying the same valid in-bounds offset directive twice in a row
\* is idempotent on the buffer: after its first application, which adds 1
\* to the total, a second application leaves the buffer as the first left
\* it (literal tokens rewrite their values, '??' tokens keep the bytes the
\* first application left) and adds 1 again.
C26_OffsetIdempotent ==
  (LastIsValidOffset /\ LastOffset + Len(LastTokens) <= Len(before)
     /\ pc \in {"Loop", "Raised"}) =>
     /\ count = 1
     /\ LastOffsetAgain.applied
     /\ LastOffsetAgain.data = patched_data

\* the last pass of the loop of patch_code took the wildcard branch
LastIsWildcard ==
  /\ ppc = "Loop"
  /\ pidx > 0
  /\ "wildcard" \in patch.keys
  /\ patch.keys \cap {"method_name", "offset"} = {}

\* the pattern_bytes of the last patch
LastPatternBytes == PatternBytes(SplitSpace(patch.wildcard, <<>>))

\* the indices i with 0 <= i <= len(data) - L at which the pattern of the
\* last patch matches the data the pass started with
LastMatchIndices ==
  {i \in 0..(Len(data_before) - Len(LastPatternBytes)) :
     AllMatch(LastPatternBytes, data_before, i)}

\* C27: wildcard_pattern_scan returns the smallest index i with
\* 0 <= i <= len(data) - L at which every non-wildcard token of the pattern
\* equals data[i + j], and -1 exactly when there is no such index, for
\* every pattern length L >= 1.
C27_ScanSmallestIndex ==
  LastIsWildcard =>
    /\ (LastMatchIndices = {}) <=> (offset = -1)
    /\ LastMatchIndices # {} =>
         /\ offset \in LastMatchIndices
         /\ \A i \in LastMatchIndices : offset <= i

\* C28: applying patches never changes the length of the data of
\* patch_code, and the output written is as long as the input file.
C28_LengthKept ==
  /\ ppc = "Loop" => Len(data) = Len(input_file)
  /\ ppc = "Done" => Len(output_file) = Len(input_file)

\* the messages of a skipped patch
SkipMessages == {"MethodNotFound", "NoMatch", "NoDefinition", "OutOfRange"}

\* C29: when the input file is read, the output file is written exactly
\* once, after the last patch, whatever was applied or skipped, and holds
\* the data; with no patch at all it equals the input; a skipped patch
\* leaves the data unchanged and the loop goes on.
C29_OneWriteAfterLastPatch ==
  /\ ppc = "Loop" => output_writes = 0
  /\ ppc = "Done" => output_writes = 1 /\ output_file = data
  /\ ppc = "Done" /\ pidx = 0 => output_file = input_file
  /\ pidx > 0 /\ plog \cap SkipMessages # {} =>
       ppc = "Loop" /\ data = data_before

\* two patches were skipped, the second for want of a wildcard match, and
\* the output was written once with the content of the input
C29_Witness ==
  /\ ppc = "Done"
  /\ pidx = MaxPatches
  /\ "wildcard" \in patch.keys
  /\ offset = -1
  /\ data = input_file
  /\ input_file # <<>>
  /\ output_writes = 1
  /\ output_file = input_file

\* the closing line of the entry a line belongs to: the first line from
\* it on that has "/>"
ClosingLine(ls, i) ==
  CHOOSE j \in i..Len(ls) :
     /\ ClosesTag(ls[j])
     /\ \A k \in i..(j - 1) : ~ClosesTag(ls[k])

\* the lines of the entries that name a listed string: from a line with a
\* listed name through the closing line of its entry
ListedLines(ls, metas) ==
  {k \in 1..Len(ls) :
     \E i \in 1..k : AnyMetaIn(ls[i], metas) /\ k <= ClosingLine(ls, i)}

\* the lines of ls outside the set drop, in their order
RECURSIVE KeepOutside(_, _, _)
KeepOutside(ls, drop, k) ==
  IF k > Len(ls) THEN <<>>
  ELSE IF k \in drop THEN KeepOutside(ls, drop, k + 1)
  ELSE <<ls[k]>> \o KeepOutside(ls, drop, k + 1)

\* C30: the manifest written back is the manifest read without the lines
\* of the meta-data entries that name a listed string, from the line with
\* the name through the closing line of the entry; every other line is
\* kept, in order.
C30_ExactlyListedEntriesRemoved ==
  mpc = "Done" =>
    manifest_file =
      KeepOutside(lines, ListedLines(lines, metadata_to_remove), 1)

====
